---- MODULE Spec2Model ----
(***************************************************************************)
(* Model of the Telegram cryptocurrency bot worker (src/worker.js): the    *)
(* HTTP entry point, the command dispatcher, the five command handlers,    *)
(* the pulse section client with its fallback fixtures, the listing        *)
(* formatter, the MarkdownV2 escaper and the outbound sender.              *)
(*                                                                         *)
(* Text is a sequence of one-character strings.  Every await of the code   *)
(* is a point where the dispatch chain is parked; an action resumes the    *)
(* chain from one await and runs it to the next one.                       *)
(***************************************************************************)
EXTENDS Integers, Sequences, FiniteSets, TLC

\* ------------------------------------------------------------------------
\* Text helpers (String.prototype methods the worker uses)
\* ------------------------------------------------------------------------
UpperLetters == <<"A", "B", "C", "D", "E", "F", "G", "H", "I", "J", "K", "L", "M", "N", "O", "P", "Q", "R", "S", "T", "U", "V", "W", "X", "Y", "Z">>
LowerLetters == <<"a", "b", "c", "d", "e", "f", "g", "h", "i", "j", "k", "l", "m", "n", "o", "p", "q", "r", "s", "t", "u", "v", "w", "x", "y", "z">>

\* JavaScript undefined and null, as values that are no text
undefined == <<"#undefined">>
null == <<"#null">>

toLowerCaseChar(c) ==
  IF \E i \in 1..26 : UpperLetters[i] = c
  THEN LowerLetters[CHOOSE i \in 1..26 : UpperLetters[i] = c]
  ELSE c

toUpperCaseChar(c) ==
  IF \E i \in 1..26 : LowerLetters[i] = c
  THEN UpperLetters[CHOOSE i \in 1..26 : LowerLetters[i] = c]
  ELSE c

toLowerCase(s) == [i \in 1..Len(s) |-> toLowerCaseChar(s[i])]

toUpperCase(s) == [i \in 1..Len(s) |-> toUpperCaseChar(s[i])]

startsWith(s, p) == Len(s) >= Len(p) /\ SubSeq(s, 1, Len(p)) = p

\* Variant of split that cuts at the first separator only (the argument
\* taken as the rest of the text)
split_once(s, sep) ==
  IF \E i \in 1..Len(s) : s[i] = sep
  THEN LET i == CHOOSE k \in 1..Len(s) : s[k] = sep /\ \A j \in 1..(k - 1) : s[j] # sep
       IN  <<SubSeq(s, 1, i - 1), SubSeq(s, i + 1, Len(s))>>
  ELSE <<s>>

\* s.split(sep) for a one-character separator: the pieces between the
\* separators, empty pieces included
RECURSIVE split(_, _)
split(s, sep) ==
  IF \E i \in 1..Len(s) : s[i] = sep
  THEN LET i == CHOOSE k \in 1..Len(s) : s[k] = sep /\ \A j \in 1..(k - 1) : s[j] # sep
       IN  <<SubSeq(s, 1, i - 1)>> \o split(SubSeq(s, i + 1, Len(s)), sep)
  ELSE <<s>>

\* the grave accent character, which a TLA+ string literal cannot hold
Backtick == "BACKTICK"

\* the character class of the regular expression of escapeMarkdown
ReservedChars ==
  {"_", "*", "[", "]", "(", ")", "~", Backtick, ">", "#", "+", "-", "=", "|", "{", "}", ".", "!"}

\* Variant of escapeChars that escapes the first reserved character only (a
\* replace without the global flag)
RECURSIVE escapeChars_first(_)
escapeChars_first(s) ==
  IF s = <<>> THEN <<>>
  ELSE IF s[1] \in ReservedChars THEN <<"\\", s[1]>> \o Tail(s)
  ELSE <<s[1]>> \o escapeChars_first(Tail(s))

RECURSIVE escapeChars(_)
escapeChars(s) ==
  IF s = <<>> THEN <<>>
  ELSE (IF s[1] \in ReservedChars THEN <<"\\", s[1]>> ELSE <<s[1]>>) \o escapeChars(Tail(s))

escapeMarkdown(text) ==
  IF text = undefined \/ text = null THEN <<>> ELSE escapeChars(text)

\* ------------------------------------------------------------------------
\* Inbound texts the webhook is exercised with
\* ------------------------------------------------------------------------
TxtStart == <<"/", "s", "t", "a", "r", "t">>
TxtHelp == <<"/", "h", "e", "l", "p">>
TxtHelpUpper == <<"/", "H", "E", "L", "P">>
TxtHelpLead == <<" ", "/", "h", "e", "l", "p">>
TxtHelpTrail == <<"/", "h", "e", "l", "p", " ">>
TxtTop10 == <<"/", "t", "o", "p", "1", "0">>
TxtTop10Mixed == <<"/", "T", "o", "p", "1", "0">>
TxtTrending == <<"/", "t", "r", "e", "n", "d", "i", "n", "g">>
TxtPulse == <<"/", "p", "u", "l", "s", "e">>
TxtGlobal == <<"/", "g", "l", "o", "b", "a", "l">>
TxtPriceBtc == <<"/", "p", "r", "i", "c", "e", " ", "b", "t", "c">>
TxtPriceBtcUpper == <<"/", "p", "r", "i", "c", "e", " ", "B", "T", "C">>
TxtPriceTwoSpaces == <<"/", "p", "r", "i", "c", "e", " ", " ", "b", "t", "c">>
TxtPriceTwoArgs == <<"/", "p", "r", "i", "c", "e", " ", "b", "t", "c", " ", "e", "t", "h">>
TxtPriceNoArg == <<"/", "p", "r", "i", "c", "e", " ">>
TxtPriceBare == <<"/", "p", "r", "i", "c", "e">>
TxtPriceDotted == <<"/", "p", "r", "i", "c", "e", " ", "a", ".", "b">>
TxtPriceTab == <<"/", "p", "r", "i", "c", "e", " ", "b", "t", "c", "\t", "e", "t", "h">>
TxtPriceLead == <<" ", "/", "p", "r", "i", "c", "e", " ", "b", "t", "c">>
TxtPriceGlued == <<"/", "p", "r", "i", "c", "e", "b", "t", "c">>
TxtHello == <<"h", "e", "l", "l", "o">>
InboundTexts ==
  {TxtStart,
   TxtHelp,
   TxtHelpUpper,
   TxtHelpLead,
   TxtHelpTrail,
   TxtTop10,
   TxtTop10Mixed,
   TxtTrending,
   TxtPulse,
   TxtGlobal,
   TxtPriceBtc,
   TxtPriceBtcUpper,
   TxtPriceTwoSpaces,
   TxtPriceTwoArgs,
   TxtPriceNoArg,
   TxtPriceBare,
   TxtPriceDotted,
   TxtPriceTab,
   TxtPriceLead,
   TxtPriceGlued,
   TxtHello}


\* ------------------------------------------------------------------------
\* Pulse listings: records, fallback fixtures, formatter
\* ------------------------------------------------------------------------
\* A number is <<[m |-> mantissa, e |-> decimal exponent]>>; <<>> is a
\* numeric field the record does not have.
Num(m, e) == <<[m |-> m, e |-> e]>>
NoNum == <<>>

\* JavaScript truthiness of an optional number and of an optional string
NumTruthy(n) == n # NoNum /\ n[1].m # 0
TextTruthy(t) == t # undefined /\ t # null /\ t # <<>>

Coin(name, symbol, price, marketCap, volume24h, holders, age, change24h, progress, migrationTime) ==
  [isObject |-> TRUE, name |-> name, symbol |-> symbol, price |-> price,
   marketCap |-> marketCap, volume24h |-> volume24h, holders |-> holders,
   age |-> age, change24h |-> change24h, progress |-> progress,
   migrationTime |-> migrationTime]

\* an element of a listing that is no object (JSON null): reading a
\* property of it throws
NullItem ==
  [isObject |-> FALSE, name |-> undefined, symbol |-> undefined, price |-> NoNum,
   marketCap |-> NoNum, volume24h |-> NoNum, holders |-> NoNum,
   age |-> undefined, change24h |-> NoNum, progress |-> NoNum,
   migrationTime |-> undefined]

Sections == {"new-pairs", "final-stretch", "migrated"}

\* Variant of getMockPulseData with no fixture at all
getMockPulseData_empty(section) == <<>>

getMockPulseData(section) ==
  CASE section = "new-pairs" ->
         << Coin(<<"P", "E", "P", "E", "2", ".", "0">>, <<"P", "E", "P", "E", "2">>,
                 Num(1234, -9), Num(125, 4), Num(45, 4), Num(125, 1),
                 <<"1", "5", "m">>, Num(4567, -2), NoNum, undefined),
            Coin(<<"D", "o", "g", "e", "C", "o", "i", "n", " ", "C", "l", "a", "s", "s", "i", "c">>, <<"D", "O", "G", "E", "C">>,
                 Num(234, -5), Num(89, 4), Num(32, 4), Num(89, 1),
                 <<"8", "m">>, Num(-1234, -2), NoNum, undefined) >>
    [] section = "final-stretch" ->
         << Coin(<<"M", "o", "o", "n", "S", "h", "o", "t", " ", "T", "o", "k", "e", "n">>, <<"M", "O", "O", "N">>,
                 Num(456, -4), Num(234, 4), Num(89, 4), Num(21, 2),
                 <<"2", "h">>, Num(12345, -2), Num(85, 0), undefined) >>
    [] section = "migrated" ->
         << Coin(<<"S", "u", "c", "c", "e", "s", "s", "f", "u", "l", " ", "M", "e", "m", "e">>, <<"S", "M", "E", "M", "E">>,
                 Num(234, -3), Num(156, 5), Num(34, 5), Num(89, 2),
                 <<"1", "d">>, Num(23456, -2), NoNum, <<"2", "h", " ", "a", "g", "o">>) >>
    [] OTHER -> <<>>

Line(label, icon, fmt, num, text) ==
  [label |-> label, icon |-> icon, fmt |-> fmt, num |-> num, text |-> text]

\* formatCoinInfo throws a TypeError on an element that is no object
formatCoinInfoThrows(coin) == ~coin.isObject

\* Variant of formatCoinInfo that renders the progress line whenever the
\* record has the field, a zero included
formatCoinInfo_progressDefined(coin, index) ==
  LET priceChangeIcon ==
        IF (IF NumTruthy(coin.change24h) THEN coin.change24h[1].m ELSE 0) >= 0
        THEN "green" ELSE "red"
      changeLine ==
        IF NumTruthy(coin.change24h)
        THEN Line("24h", priceChangeIcon, "toFixed2", coin.change24h, <<>>)
        ELSE Line("24h", priceChangeIcon, "text", NoNum, escapeMarkdown(<<"0", ".", "0", "0">>))
      opt(cond, line) == IF cond THEN <<line>> ELSE <<>>
  IN  [index |-> index,
       name |-> escapeMarkdown(IF TextTruthy(coin.name) THEN coin.name ELSE <<"U", "n", "k", "n", "o", "w", "n">>),
       symbol |-> escapeMarkdown(toUpperCase(IF TextTruthy(coin.symbol) THEN coin.symbol ELSE <<"N", "/", "A">>)),
       lines |->
            opt(NumTruthy(coin.price), Line("Price", "", "toLocaleString", coin.price, <<>>))
         \o <<changeLine>>
         \o opt(NumTruthy(coin.marketCap), Line("Market Cap", "", "toLocaleString", coin.marketCap, <<>>))
         \o opt(NumTruthy(coin.volume24h), Line("Volume", "", "toLocaleString", coin.volume24h, <<>>))
         \o opt(NumTruthy(coin.holders), Line("Holders", "", "toLocaleString", coin.holders, <<>>))
         \o opt(TextTruthy(coin.age), Line("Age", "", "text", NoNum, escapeMarkdown(coin.age)))
         \o opt(coin.progress # NoNum, Line("Progress", "", "toString", coin.progress, <<>>))
         \o opt(TextTruthy(coin.migrationTime), Line("Migrated", "", "text", NoNum, escapeMarkdown(coin.migrationTime)))]

\* The rendered block of one listing: the header (index, escaped name,
\* escaped upper-cased symbol) and the lines below it, in order.  A number
\* line keeps the number and the name of the conversion applied to it.
formatCoinInfo(coin, index) ==
  LET priceChangeIcon ==
        IF (IF NumTruthy(coin.change24h) THEN coin.change24h[1].m ELSE 0) >= 0
        THEN "green" ELSE "red"
      changeLine ==
        IF NumTruthy(coin.change24h)
        THEN Line("24h", priceChangeIcon, "toFixed2", coin.change24h, <<>>)
        ELSE Line("24h", priceChangeIcon, "text", NoNum, escapeMarkdown(<<"0", ".", "0", "0">>))
      opt(cond, line) == IF cond THEN <<line>> ELSE <<>>
  IN  [index |-> index,
       name |-> escapeMarkdown(IF TextTruthy(coin.name) THEN coin.name ELSE <<"U", "n", "k", "n", "o", "w", "n">>),
       symbol |-> escapeMarkdown(toUpperCase(IF TextTruthy(coin.symbol) THEN coin.symbol ELSE <<"N", "/", "A">>)),
       lines |->
            opt(NumTruthy(coin.price), Line("Price", "", "toLocaleString", coin.price, <<>>))
         \o <<changeLine>>
         \o opt(NumTruthy(coin.marketCap), Line("Market Cap", "", "toLocaleString", coin.marketCap, <<>>))
         \o opt(NumTruthy(coin.volume24h), Line("Volume", "", "toLocaleString", coin.volume24h, <<>>))
         \o opt(NumTruthy(coin.holders), Line("Holders", "", "toLocaleString", coin.holders, <<>>))
         \o opt(TextTruthy(coin.age), Line("Age", "", "text", NoNum, escapeMarkdown(coin.age)))
         \o opt(NumTruthy(coin.progress), Line("Progress", "", "toString", coin.progress, <<>>))
         \o opt(TextTruthy(coin.migrationTime), Line("Migrated", "", "text", NoNum, escapeMarkdown(coin.migrationTime)))]

\* ------------------------------------------------------------------------
\* Listings a pulse endpoint of the provider may answer with
\* ------------------------------------------------------------------------
MaxListLen == 6

Digits == <<"1", "2", "3", "4", "5", "6", "7", "8", "9">>

\* the i-th listing of a live answer: a sparse record
LiveCoin(tag, i) ==
  Coin(<<tag, Digits[i]>>, <<"t", "k", Digits[i]>>,
       IF i % 2 = 1 THEN Num(i, 0) ELSE NoNum,
       NoNum, NoNum, NoNum, undefined,
       IF i % 2 = 0 THEN Num(-i, 0) ELSE NoNum,
       IF i = 1 THEN Num(0, 0) ELSE NoNum,
       undefined)

LiveListing(tag, n) == [i \in 1..n |-> LiveCoin(tag, i)]

ProviderListings ==
  {<<>>, LiveListing("A", 1), LiveListing("A", MaxListLen), LiveListing("B", 2), <<NullItem>>}


\* ------------------------------------------------------------------------
\* Requests and webhook payloads
\* ------------------------------------------------------------------------
ChatId == "chat-1"

\* The JSON body of a webhook delivery.  isObject is FALSE for a body that
\* is the JSON value null; text is undefined when message.text is absent.
Update(isObject, hasMessage, hasChat, hasChatId, text) ==
  [isObject |-> isObject, hasMessage |-> hasMessage, hasChat |-> hasChat,
   hasChatId |-> hasChatId, text |-> text]

MalformedTexts == {TxtHelp, TxtTop10, TxtPriceBtc, TxtHello}

Updates ==
       {Update(TRUE, TRUE, TRUE, TRUE, t) : t \in InboundTexts}
  \cup {Update(FALSE, FALSE, FALSE, FALSE, undefined),
        Update(TRUE, FALSE, FALSE, FALSE, undefined),
        Update(TRUE, TRUE, TRUE, TRUE, undefined),
        Update(TRUE, TRUE, FALSE, FALSE, undefined),
        Update(TRUE, TRUE, TRUE, TRUE, <<>>)}
  \cup {Update(TRUE, TRUE, FALSE, FALSE, t) : t \in MalformedTexts}
  \cup {Update(TRUE, TRUE, TRUE, FALSE, t) : t \in MalformedTexts}

Request(token, method, path, parses, update) ==
  [token |-> token, method |-> method, path |-> path, parses |-> parses,
   update |-> update]

NoRequest == Request(FALSE, "", "", FALSE, Update(FALSE, FALSE, FALSE, FALSE, undefined))

WEBHOOK_ENDPOINT == "/webhook"

Requests ==
  {Request(token, method, path, parses, update) :
     token \in BOOLEAN, method \in {"POST", "GET"},
     path \in {WEBHOOK_ENDPOINT, "/setwebhook", "/other"},
     parses \in BOOLEAN, update \in Updates}

\* ------------------------------------------------------------------------
\* Outbound messages
\* ------------------------------------------------------------------------
Msg(kind, arg) == [kind |-> kind, arg |-> arg, blocks |-> <<>>, notice |-> "none"]

HelpMessage == Msg("help", <<>>)

GenericApology == Msg("genericApology", <<>>)

\* the "try again later" message of the catch block of each handler
Apology(command, coinArg) ==
  CASE command = "global" -> Msg("globalApology", <<>>)
    [] command = "pulse" -> Msg("pulseApology", <<>>)
    [] command = "trending" -> Msg("trendingApology", <<>>)
    [] command = "top10" -> Msg("top10Apology", <<>>)
    [] command = "price" -> Msg("priceApology", escapeMarkdown(coinArg))

\* ------------------------------------------------------------------------
\* State
\* ------------------------------------------------------------------------
VARIABLES
  request,   \* the HTTP request handed to fetch (NoRequest before it arrives)
  response,  \* the status of the HTTP response returned, 0 while there is none
  pc,        \* the await the dispatch chain is parked at, or idle/done/rejected
  frame,     \* the block the pending sendMessage call was made from
  cmd,       \* the command handler running
  coin,      \* the argument of /price
  chatId,    \* the chat the replies go to
  sends,     \* the sendMessage calls made, in order, with their outcomes
  upstream,  \* the provider calls made, in order
  sec        \* per pulse section: the state of its fetchAxiomPulseData call

vars == <<request, response, pc, frame, cmd, coin, chatId, sends, upstream, sec>>

\* the state of one fetchAxiomPulseData call: where it is parked (st), how
\* its fetch ended (answer), the body it parsed (data), and the state and
\* the value of its promise
SecIdle ==
  [st |-> "idle", answer |-> "none",
   data |-> [kind |-> "none", items |-> <<>>,
             data |-> [t |-> "absent", items |-> <<>>],
             tokens |-> [t |-> "absent", items |-> <<>>]],
   status |-> "pending", value |-> <<>>]

Init ==
  /\ request = NoRequest
  /\ response = 0
  /\ pc = "idle"
  /\ frame = "none"
  /\ cmd = "none"
  /\ coin = undefined
  /\ chatId = "none"
  /\ sends = <<>>
  /\ upstream = <<>>
  /\ sec = [s \in Sections |-> SecIdle]

\* ------------------------------------------------------------------------
\* Calls that park the chain at an await
\* ------------------------------------------------------------------------
\* sendMessage(cid, msg, env) called from block frm, up to its await fetch
CallSend(log, cid, msg, frm) ==
  /\ sends' = Append(log, [chatId |-> cid, msg |-> msg, outcome |-> "pending"])
  /\ frame' = frm
  /\ pc' = "awaitSend"

\* fetch(...) of a provider endpoint from the try block of a handler
CallUpstream(log, api, arg, await) ==
  /\ upstream' = Append(log, [api |-> api, arg |-> arg, outcome |-> "pending"])
  /\ frame' = "try"
  /\ pc' = await

\* ------------------------------------------------------------------------
\* handleTelegramUpdate, from its call to its first await
\* ------------------------------------------------------------------------
PricePrefix == <<"/", "p", "r", "i", "c", "e", " ">>

Dispatch(cid, text) ==
  /\ chatId' = cid
  /\ sec' = sec
  /\ IF text = TxtStart \/ text = TxtHelp
     THEN /\ cmd' = "help" /\ coin' = undefined
          /\ CallSend(sends, cid, HelpMessage, "dispatch")
          /\ upstream' = upstream
     ELSE IF text = TxtTop10
     THEN /\ cmd' = "top10" /\ coin' = undefined
          /\ CallUpstream(upstream, "coins/markets", <<>>, "awaitTop10")
          /\ sends' = sends
     ELSE IF text = TxtTrending
     THEN /\ cmd' = "trending" /\ coin' = undefined
          /\ CallUpstream(upstream, "search/trending", <<>>, "awaitTrending")
          /\ sends' = sends
     ELSE IF text = TxtPulse
     THEN /\ cmd' = "pulse" /\ coin' = undefined
          /\ CallSend(sends, cid, Msg("pulseProgress", <<>>), "progress")
          /\ upstream' = upstream
     ELSE IF text = TxtGlobal
     THEN /\ cmd' = "global" /\ coin' = undefined
          /\ CallUpstream(upstream, "global", <<>>, "awaitGlobal")
          /\ sends' = sends
     ELSE IF startsWith(text, PricePrefix)
     THEN /\ cmd' = "price" /\ coin' = split(text, " ")[2]
          /\ CallUpstream(upstream, "search", split(text, " ")[2], "awaitSearch")
          /\ sends' = sends
     ELSE /\ cmd' = "none" /\ coin' = undefined
          /\ pc' = "done"
          /\ UNCHANGED <<frame, sends, upstream>>

handleTelegramUpdate(update) ==
  IF ~update.isObject
  THEN \* TypeError reading update.message: the promise rejects
       /\ pc' = "rejected"
       /\ UNCHANGED <<frame, cmd, coin, chatId, sends, upstream, sec>>
  ELSE IF ~update.hasMessage \/ ~TextTruthy(update.text)
  THEN /\ pc' = "done"
       /\ UNCHANGED <<frame, cmd, coin, chatId, sends, upstream, sec>>
  ELSE IF ~update.hasChat
  THEN \* TypeError reading update.message.chat.id, outside the try block
       /\ pc' = "rejected"
       /\ UNCHANGED <<frame, cmd, coin, chatId, sends, upstream, sec>>
  ELSE Dispatch(IF update.hasChatId THEN ChatId ELSE "undefined",
                toLowerCase(update.text))

\* ------------------------------------------------------------------------
\* The HTTP entry point
\* ------------------------------------------------------------------------
SetWebhookOutcomes == {"ok", "rejected", "threw"}

\* status of the response of setWebhook for an outcome of its call to the
\* chat platform
setWebhook(outcome) ==
  CASE outcome = "ok" -> 200
    [] outcome = "rejected" -> 401
    [] outcome = "threw" -> 500

\* Variant of Fetch that answers the webhook by the state the dispatch chain
\* is in when handleTelegramUpdate hands control back (500 once it has
\* failed)
Fetch_awaitsChain ==
  /\ response = 0
  /\ \E req \in Requests :
       /\ request' = req
       /\ IF ~req.token
          THEN /\ response' = 500
               /\ UNCHANGED <<pc, frame, cmd, coin, chatId, sends, upstream, sec>>
          ELSE IF req.method = "POST" /\ req.path = WEBHOOK_ENDPOINT
          THEN IF ~req.parses
               THEN /\ response' = 500
                    /\ UNCHANGED <<pc, frame, cmd, coin, chatId, sends, upstream, sec>>
               ELSE /\ handleTelegramUpdate(req.update)
                    /\ response' = IF pc' = "rejected" THEN 500 ELSE 200
          ELSE IF req.method = "GET" /\ req.path = "/setwebhook"
          THEN /\ \E o \in SetWebhookOutcomes : response' = setWebhook(o)
               /\ UNCHANGED <<pc, frame, cmd, coin, chatId, sends, upstream, sec>>
          ELSE /\ response' = 404
               /\ UNCHANGED <<pc, frame, cmd, coin, chatId, sends, upstream, sec>>

Fetch ==
  /\ response = 0
  /\ \E req \in Requests :
       /\ request' = req
       /\ IF ~req.token
          THEN /\ response' = 500
               /\ UNCHANGED <<pc, frame, cmd, coin, chatId, sends, upstream, sec>>
          ELSE IF req.method = "POST" /\ req.path = WEBHOOK_ENDPOINT
          THEN IF ~req.parses
               THEN \* request.json() throws: caught, Internal Server Error
                    /\ response' = 500
                    /\ UNCHANGED <<pc, frame, cmd, coin, chatId, sends, upstream, sec>>
               ELSE /\ handleTelegramUpdate(req.update)
                    /\ response' = 200
          ELSE IF req.method = "GET" /\ req.path = "/setwebhook"
          THEN /\ \E o \in SetWebhookOutcomes : response' = setWebhook(o)
               /\ UNCHANGED <<pc, frame, cmd, coin, chatId, sends, upstream, sec>>
          ELSE /\ response' = 404
               /\ UNCHANGED <<pc, frame, cmd, coin, chatId, sends, upstream, sec>>


\* ------------------------------------------------------------------------
\* Command handlers of provider A, resumed from their await
\* ------------------------------------------------------------------------
\* How a provider call ends: fetch throws, the status is no success, the
\* body is no JSON, the JSON lacks what the handler reads (a TypeError), or
\* the JSON is the record expected.
UpstreamOutcomes == {"transport", "nonOk", "badJson", "malformed", "ok"}

\* the provider calls made, the pending one settled with outcome o
Answered(o) == [upstream EXCEPT ![Len(upstream)].outcome = o]

\* Variant of the handlers' catch block that sends the dispatcher's generic
\* apology instead of the handler's own
HandlerCatch_generic(log) == CallSend(log, chatId, GenericApology, "catch")

\* the catch block of the handler running: one send of its apology
HandlerCatch(log) == CallSend(log, chatId, Apology(cmd, coin), "catch")

handleGlobalCommand ==
  /\ pc = "awaitGlobal"
  /\ \E o \in UpstreamOutcomes :
       /\ upstream' = Answered(o)
       /\ IF o = "ok"
          THEN CallSend(sends, chatId, Msg("globalData", <<>>), "try")
          ELSE HandlerCatch(sends)
  /\ UNCHANGED <<request, response, cmd, coin, chatId, sec>>

handleTrendingCommand ==
  /\ pc = "awaitTrending"
  /\ \E o \in UpstreamOutcomes :
       /\ upstream' = Answered(o)
       /\ IF o = "ok"
          THEN CallSend(sends, chatId, Msg("trendingData", <<>>), "try")
          ELSE HandlerCatch(sends)
  /\ UNCHANGED <<request, response, cmd, coin, chatId, sec>>

handleTop10Command ==
  /\ pc = "awaitTop10"
  /\ \E o \in UpstreamOutcomes :
       /\ upstream' = Answered(o)
       /\ IF o = "ok"
          THEN CallSend(sends, chatId, Msg("top10Data", <<>>), "try")
          ELSE HandlerCatch(sends)
  /\ UNCHANGED <<request, response, cmd, coin, chatId, sec>>

\* How the search call of /price ends.  "null" is a JSON null body (reading
\* coins of it throws), "noCoins" a record without a coins list, "zeroHits"
\* an empty coins list, "malformed" a coins value whose first hit cannot be
\* read, "hit" a list with a first hit.
SearchOutcomes ==
  {"transport", "nonOk", "badJson", "null", "malformed", "noCoins", "zeroHits", "hit"}

\* handlePriceCommand resumed with the answer of the search call
handlePriceCommandSearch ==
  /\ pc = "awaitSearch"
  /\ \E o \in SearchOutcomes :
       IF o \in {"noCoins", "zeroHits"}
       THEN /\ CallSend(sends, chatId, Msg("priceNotFound", escapeMarkdown(coin)), "try")
            /\ upstream' = Answered(o)
       ELSE IF o = "hit"
       THEN /\ CallUpstream(Answered(o), "coins/id", coin, "awaitDetail")
            /\ sends' = sends
       ELSE /\ HandlerCatch(sends)
            /\ upstream' = Answered(o)
  /\ UNCHANGED <<request, response, cmd, coin, chatId, sec>>

\* handlePriceCommand resumed with the answer of the detail call
handlePriceCommandDetail ==
  /\ pc = "awaitDetail"
  /\ \E o \in UpstreamOutcomes :
       /\ upstream' = Answered(o)
       /\ IF o = "ok"
          THEN CallSend(sends, chatId, Msg("priceData", <<>>), "try")
          ELSE HandlerCatch(sends)
  /\ UNCHANGED <<request, response, cmd, coin, chatId, sec>>

\* ------------------------------------------------------------------------
\* Outbound sender
\* ------------------------------------------------------------------------
\* How a sendMessage call ends: the platform accepts ("ok"), the platform
\* answers a non-success status ("rejected"), fetch throws ("transport"),
\* or the body of the answer is no JSON ("badBody").  Only "ok" returns;
\* the three others are logged and thrown again.
SendOutcomes == {"ok", "rejected", "transport", "badBody"}

sendMessageThrows(outcome) == outcome # "ok"

\* the three fetchAxiomPulseData calls of handlePulseCommand, each up to
\* its await fetch
StartPulseFetches ==
  /\ upstream' = upstream \o << [api |-> "pulse/new-pairs", arg |-> <<>>, outcome |-> "pending"],
                                [api |-> "pulse/final-stretch", arg |-> <<>>, outcome |-> "pending"],
                                [api |-> "pulse/migrated", arg |-> <<>>, outcome |-> "pending"] >>
  /\ sec' = [s \in Sections |-> [SecIdle EXCEPT !.st = "fetch"]]
  /\ pc' = "awaitPulse"

\* Variant of SendThrown in which the catch block of handleTelegramUpdate
\* sends its apology again when that send fails
SendThrown_retry(log) ==
  CASE frame \in {"try", "progress"} -> CallSend(log, chatId, Apology(cmd, coin), "catch")
    [] frame \in {"dispatch", "catch", "outer"} -> CallSend(log, chatId, GenericApology, "outer")

\* where an error thrown by the pending sendMessage is caught: the catch
\* block of the handler, the catch block of handleTelegramUpdate, or nowhere
SendThrown(log) ==
  CASE frame \in {"try", "progress"} -> HandlerCatch(log)
    [] frame \in {"dispatch", "catch"} -> CallSend(log, chatId, GenericApology, "outer")
    [] frame = "outer" -> /\ pc' = "rejected"
                          /\ sends' = log
                          /\ frame' = frame

sendMessage ==
  /\ pc = "awaitSend"
  /\ \E o \in SendOutcomes :
       LET log == [sends EXCEPT ![Len(sends)].outcome = o]
       IN  IF sendMessageThrows(o)
           THEN SendThrown(log) /\ UNCHANGED <<upstream, sec>>
           ELSE IF frame = "progress"
           THEN /\ sends' = log
                /\ frame' = "try"
                /\ StartPulseFetches
           ELSE /\ sends' = log
                /\ pc' = "done"
                /\ UNCHANGED <<frame, upstream, sec>>
  /\ UNCHANGED <<request, response, cmd, coin, chatId>>


\* ------------------------------------------------------------------------
\* Pulse section client
\* ------------------------------------------------------------------------
\* A field of a JSON record: absent, an array, or any other value
Field(t, items) == [t |-> t, items |-> items]
NoField == Field("absent", <<>>)
OtherField == Field("other", <<>>)

\* The body of a success answer: kind "invalid" is a body that is no JSON,
\* "null" the JSON value null, "array" a bare array, "object" a record with
\* its data and tokens fields, "scalar" a number or a string.
Payload(kind, items, data, tokens) ==
  [kind |-> kind, items |-> items, data |-> data, tokens |-> tokens]

PulsePayloads ==
       {Payload("invalid", <<>>, NoField, NoField),
        Payload("null", <<>>, NoField, NoField),
        Payload("scalar", <<>>, NoField, NoField),
        Payload("object", <<>>, NoField, NoField),
        Payload("object", <<>>, OtherField, OtherField),
        Payload("object", <<>>, Field("array", LiveListing("A", 1)), Field("array", LiveListing("B", 2))),
        Payload("object", <<>>, OtherField, Field("array", LiveListing("B", 2)))}
  \cup {Payload("array", l, NoField, NoField) : l \in ProviderListings}
  \cup {Payload("object", <<>>, Field("array", l), NoField) : l \in {<<>>, LiveListing("A", MaxListLen)}}
  \cup {Payload("object", <<>>, NoField, Field("array", l)) : l \in {<<>>, LiveListing("B", 2)}}

\* Variant of fetchAxiomPulseDataBody that looks at the tokens field before
\* the data field
fetchAxiomPulseDataBody_tokensFirst(section, data) ==
  IF data.kind \in {"invalid", "null"} THEN getMockPulseData(section)
  ELSE IF data.kind = "array" THEN data.items
  ELSE IF data.tokens.t = "array" THEN data.tokens.items
  ELSE IF data.data.t = "array" THEN data.data.items
  ELSE <<>>

\* what fetchAxiomPulseData returns once response.json() has settled
fetchAxiomPulseDataBody(section, data) ==
  IF data.kind \in {"invalid", "null"}
  THEN \* response.json() throws, or reading data.data of null throws: caught
       getMockPulseData(section)
  ELSE IF data.kind = "array" THEN data.items
  ELSE IF data.data.t = "array" THEN data.data.items
  ELSE IF data.tokens.t = "array" THEN data.tokens.items
  ELSE <<>>

PulseFetchOutcomes == {"transport", "nonOk", "ok"}

Settled(r, value) == [r EXCEPT !.st = "settled", !.status = "fulfilled", !.value = value]

\* position in the provider calls of the call of section s
SectionCall(s) ==
  Len(upstream) - 3 + (CHOOSE i \in 1..3 : <<"new-pairs", "final-stretch", "migrated">>[i] = s)

\* fetchAxiomPulseData(s) resumed from await fetch
fetchAxiomPulseData(s) ==
  /\ pc = "awaitPulse"
  /\ sec[s].st = "fetch"
  /\ \E o \in PulseFetchOutcomes :
       /\ sec' = [sec EXCEPT ![s] =
                    IF o = "ok"
                    THEN [@ EXCEPT !.st = "json", !.answer = o]
                    ELSE Settled([@ EXCEPT !.answer = o], getMockPulseData(s))]
       /\ upstream' = [upstream EXCEPT ![SectionCall(s)].outcome = o]
  /\ UNCHANGED <<request, response, pc, frame, cmd, coin, chatId, sends>>

\* fetchAxiomPulseData(s) resumed from await response.json()
fetchAxiomPulseDataJson(s) ==
  /\ pc = "awaitPulse"
  /\ sec[s].st = "json"
  /\ \E data \in PulsePayloads :
       sec' = [sec EXCEPT ![s] =
                 Settled([@ EXCEPT !.data = data], fetchAxiomPulseDataBody(s, data))]
  /\ UNCHANGED <<request, response, pc, frame, cmd, coin, chatId, sends, upstream>>

\* ------------------------------------------------------------------------
\* handlePulseCommand, resumed once Promise.allSettled has settled
\* ------------------------------------------------------------------------
PulseHeading(s) ==
  CASE s = "new-pairs" -> "New Pairs"
    [] s = "final-stretch" -> "Final Stretch"
    [] s = "migrated" -> "Migrated to Raydium"

SectionOrder == <<"new-pairs", "final-stretch", "migrated">>

PulseCap == 5

\* Variant of slice that keeps the whole list
slice_nocap(l, n) == l

slice(l, n) == SubSeq(l, 1, IF Len(l) < n THEN Len(l) ELSE n)

SectionShown(r) == r.status = "fulfilled" /\ Len(r.value) > 0

\* the heading and the formatted listings of one section
PulseBlock(s, r) ==
  [heading |-> PulseHeading(s),
   items |-> [i \in 1..Len(slice(r.value, PulseCap)) |-> formatCoinInfo(r.value[i], i)]]

RECURSIVE PulseBlocks(_, _)
PulseBlocks(order, results) ==
  IF order = <<>> THEN <<>>
  ELSE (IF SectionShown(results[order[1]])
        THEN <<PulseBlock(order[1], results[order[1]])>> ELSE <<>>)
       \o PulseBlocks(Tail(order), results)

PulseNotice(results) ==
  IF \A s \in Sections : results[s].status = "rejected" THEN "unable"
  ELSE IF \A s \in Sections : results[s].status = "fulfilled" /\ Len(results[s].value) = 0
  THEN "noNew"
  ELSE "none"

\* a listing rendered makes formatCoinInfo throw
PulseFormatThrows(results) ==
  \E s \in Sections :
    /\ SectionShown(results[s])
    /\ \E i \in 1..Len(slice(results[s].value, PulseCap)) :
         formatCoinInfoThrows(results[s].value[i])

PulseReply(results) ==
  [kind |-> "pulseReply", arg |-> <<>>,
   blocks |-> PulseBlocks(SectionOrder, results),
   notice |-> PulseNotice(results)]

handlePulseCommand ==
  /\ pc = "awaitPulse"
  /\ \A s \in Sections : sec[s].st = "settled"
  /\ IF PulseFormatThrows(sec)
     THEN HandlerCatch(sends)
     ELSE CallSend(sends, chatId, PulseReply(sec), "try")
  /\ UNCHANGED <<request, response, cmd, coin, chatId, upstream, sec>>

\* ------------------------------------------------------------------------
\* Specification
\* ------------------------------------------------------------------------
Next ==
  \/ Fetch
  \/ handleGlobalCommand
  \/ handleTrendingCommand
  \/ handleTop10Command
  \/ handlePriceCommandSearch
  \/ handlePriceCommandDetail
  \/ \E s \in Sections : fetchAxiomPulseData(s)
  \/ \E s \in Sections : fetchAxiomPulseDataJson(s)
  \/ handlePulseCommand
  \/ sendMessage

Spec == Init /\ [][Next]_vars


\* ------------------------------------------------------------------------
\* escapeMarkdown on its own: the argument is held in coin, the text
\* returned is the arg of the message logged
\* ------------------------------------------------------------------------
MaxTextLen == 2

EscapeAlphabet == ReservedChars \cup {"a", "\\", " "}

EscapeInputs ==
  {undefined, null} \cup UNION {[1..k -> EscapeAlphabet] : k \in 0..MaxTextLen}

InitEscape ==
  /\ request = NoRequest
  /\ response = 0
  /\ pc = "idle"
  /\ frame = "none"
  /\ cmd = "none"
  /\ coin \in EscapeInputs
  /\ chatId = "none"
  /\ sends = <<>>
  /\ upstream = <<>>
  /\ sec = [s \in Sections |-> SecIdle]

escapeMarkdownCall ==
  /\ pc = "idle"
  /\ sends' = <<[chatId |-> chatId, msg |-> Msg("escaped", escapeMarkdown(coin)),
                 outcome |-> "pending"]>>
  /\ pc' = "done"
  /\ UNCHANGED <<request, response, frame, cmd, coin, chatId, upstream, sec>>

NextEscape == escapeMarkdownCall

SpecEscape == InitEscape /\ [][NextEscape]_vars

\* ------------------------------------------------------------------------
\* formatCoinInfo on its own: the record is the one listing of the
\* new-pairs section, the block returned is the one item of the message
\* logged
\* ------------------------------------------------------------------------
NumberValues == {NoNum, Num(0, 0), Num(5, 0)}

ChangeValues == NumberValues \cup {Num(-5, 0)}

TextValues == {undefined, null, <<>>, <<"2", "h">>}

FormatCoins ==
  {Coin(<<"T", "1">>, <<"t", "k">>, price, marketCap, volume24h, holders, age,
        change24h, progress, migrationTime) :
     price \in NumberValues, marketCap \in NumberValues, volume24h \in NumberValues,
     holders \in NumberValues, age \in TextValues, change24h \in ChangeValues,
     progress \in NumberValues, migrationTime \in TextValues}

InitFormat ==
  /\ request = NoRequest
  /\ response = 0
  /\ pc = "idle"
  /\ frame = "none"
  /\ cmd = "none"
  /\ coin = undefined
  /\ chatId = "none"
  /\ sends = <<>>
  /\ upstream = <<>>
  /\ \E c \in FormatCoins :
       sec = [s \in Sections |->
                IF s = "new-pairs" THEN [SecIdle EXCEPT !.value = <<c>>] ELSE SecIdle]

formatCoinInfoCall ==
  /\ pc = "idle"
  /\ sends' = <<[chatId |-> chatId,
                 msg |-> [kind |-> "formatted", arg |-> <<>>,
                          blocks |-> <<[heading |-> PulseHeading("new-pairs"),
                                        items |-> <<formatCoinInfo(sec["new-pairs"].value[1], 1)>>]>>,
                          notice |-> "none"],
                 outcome |-> "pending"]>>
  /\ pc' = "done"
  /\ UNCHANGED <<request, response, frame, cmd, coin, chatId, upstream, sec>>

NextFormat == formatCoinInfoCall

SpecFormat == InitFormat /\ [][NextFormat]_vars

\* ------------------------------------------------------------------------
\* Properties
\* ------------------------------------------------------------------------
\* the request is a webhook delivery that fetch hands to handleTelegramUpdate
WebhookPost ==
  /\ request.token
  /\ request.method = "POST"
  /\ request.path = WEBHOOK_ENDPOINT
  /\ request.parses

AllSendsOk == \A i \in DOMAIN sends : sends[i].outcome = "ok"

OkSends == {i \in DOMAIN sends : sends[i].outcome = "ok"}

\* C1, as stated: handling an inbound message sends at most one message to
\* the chat platform, whatever the command and the outcomes of the provider
\* calls and of the sends.
C1_AtMostOneSend == Cardinality(OkSends) <= 1

\* C1, amended: at most one send call returns successfully per inbound
\* message, two for /pulse (the progress notice, then one reply); counting
\* the calls that fail, at most three send calls are made, four for /pulse;
\* and when no send call fails the finished chain has made exactly one send
\* call, two for /pulse, none for a text that is no command.
C1_SendBound ==
  /\ Cardinality(OkSends) <= (IF cmd = "pulse" THEN 2 ELSE 1)
  /\ Len(sends) <= (IF cmd = "pulse" THEN 4 ELSE 3)
  /\ (pc = "done" /\ AllSendsOk) =>
        Len(sends) = (CASE cmd = "none" -> 0 [] cmd = "pulse" -> 2 [] OTHER -> 1)

C1_Witness ==
  /\ pc = "done"
  /\ cmd = "pulse"
  /\ AllSendsOk
  /\ Len(sends) = 2
  /\ sends[1].msg.kind = "pulseProgress"
  /\ sends[2].msg.kind = "pulseReply"

\* C2: once the platform has rejected a send, no further send is attempted
\* for the inbound message and handleTelegramUpdate does not reject.
C2_DeliveryErrorSwallowed ==
  /\ \A i \in DOMAIN sends : sends[i].outcome = "rejected" => i = Len(sends)
  /\ (\E i \in DOMAIN sends : sends[i].outcome = "rejected") => pc # "rejected"

\* the payload is a record that lacks message.text or message.chat.id
LacksTextOrChatId(u) ==
  /\ u.isObject
  /\ \/ ~u.hasMessage
     \/ u.text = undefined
     \/ ~u.hasChat
     \/ ~u.hasChatId

\* C3: a webhook payload lacking message.text or message.chat.id leads to no
\* send call, no provider call and no error.
C3_MalformedUpdateDropped ==
  (WebhookPost /\ LacksTextOrChatId(request.update)) =>
     /\ sends = <<>>
     /\ upstream = <<>>
     /\ pc # "rejected"

\* C4, as stated: every POST delivered to the webhook endpoint is answered
\* with the success acknowledgement.
C4_EveryPostAcknowledged ==
  (request.method = "POST" /\ request.path = WEBHOOK_ENDPOINT) => response = 200

\* C4, amended: every POST delivered to the webhook endpoint while the bot
\* token is configured and whose body parses as JSON is answered 200, and
\* the answer is there wherever the dispatch chain stands -- parked at a
\* provider call or a send, finished, or failed; a POST to the endpoint
\* without a configured token or with a body that is no JSON is answered 500.
C4_AckWithoutWaiting ==
  /\ WebhookPost => response = 200
  /\ ( /\ request.method = "POST"
       /\ request.path = WEBHOOK_ENDPOINT
       /\ ~(request.token /\ request.parses) )
     => response = 500 /\ pc = "idle"

C4_Witness ==
  /\ WebhookPost
  /\ response = 200
  /\ pc = "awaitSend"
  /\ frame = "outer"
  /\ \E i \in DOMAIN upstream : upstream[i].outcome = "transport"

\* the ways a call to provider A fails: fetch throws, a non-success status,
\* a body that is no JSON, a JSON body the handler cannot read
UpstreamFailures == {"transport", "nonOk", "badJson", "null", "malformed"}

ApologyKind(command) ==
  CASE command = "top10" -> "top10Apology"
    [] command = "trending" -> "trendingApology"
    [] command = "global" -> "globalApology"
    [] command = "price" -> "priceApology"

\* C5: for /top10, /trending, /global and /price, when a provider call of
\* the command fails and every send succeeds, exactly one message is sent
\* and it is the "try again later" apology of the command.
C5_UpstreamFailureApology ==
  ( /\ pc = "done"
    /\ cmd \in {"top10", "trending", "global", "price"}
    /\ \E i \in DOMAIN upstream : upstream[i].outcome \in UpstreamFailures
    /\ AllSendsOk )
  => /\ Len(sends) = 1
     /\ sends[1].msg.kind = ApologyKind(cmd)
     /\ sends[1].chatId = chatId

C5_Witness ==
  /\ pc = "done"
  /\ cmd = "price"
  /\ Len(upstream) = 2
  /\ upstream[1].outcome = "hit"
  /\ upstream[2].outcome = "nonOk"
  /\ sends = <<[chatId |-> ChatId, msg |-> Msg("priceApology", escapeMarkdown(coin)),
                outcome |-> "ok"]>>


\* the dispatcher of handleTelegramUpdate is reached: the payload has a
\* message with a text and a chat
Dispatched ==
  /\ WebhookPost
  /\ request.update.isObject
  /\ request.update.hasMessage
  /\ TextTruthy(request.update.text)
  /\ request.update.hasChat

IsWhitespace(c) == c \in {" ", "\t"}

RECURSIVE trimStart(_)
trimStart(s) == IF s # <<>> /\ IsWhitespace(s[1]) THEN trimStart(Tail(s)) ELSE s

RECURSIVE trimEnd(_)
trimEnd(s) ==
  IF s # <<>> /\ IsWhitespace(s[Len(s)]) THEN trimEnd(SubSeq(s, 1, Len(s) - 1)) ELSE s

trim(s) == trimEnd(trimStart(s))

\* the longest prefix of s without a character of the set stop
RECURSIVE prefixUntil(_, _)
prefixUntil(s, stop) ==
  IF s = <<>> \/ s[1] \in stop THEN <<>> ELSE <<s[1]>> \o prefixUntil(Tail(s), stop)

ExactCommand(t) ==
  CASE t = <<"/", "s", "t", "a", "r", "t">> -> "help"
    [] t = <<"/", "h", "e", "l", "p">> -> "help"
    [] t = <<"/", "t", "o", "p", "1", "0">> -> "top10"
    [] t = <<"/", "t", "r", "e", "n", "d", "i", "n", "g">> -> "trending"
    [] t = <<"/", "p", "u", "l", "s", "e">> -> "pulse"
    [] t = <<"/", "g", "l", "o", "b", "a", "l">> -> "global"
    [] OTHER -> "none"

BeginsWithPrice(t) ==
  Len(t) >= 7 /\ SubSeq(t, 1, 7) = <<"/", "p", "r", "i", "c", "e", " ">>

\* the command the claim gives a text: matched on the trimmed, lower-cased
\* text
ClaimedCommand(text) ==
  LET t == toLowerCase(trim(text))
  IN  IF ExactCommand(t) # "none" THEN ExactCommand(t)
      ELSE IF BeginsWithPrice(t) THEN "price" ELSE "none"

\* the argument the claim gives /price: the first whitespace-delimited token
\* after the prefix
ClaimedArgument(text) ==
  LET t == toLowerCase(trim(text))
  IN  prefixUntil(trimStart(SubSeq(t, 8, Len(t))), {" ", "\t"})

\* C6, as stated: the command is matched on the text trimmed of surrounding
\* whitespace, letter case ignored; /price takes the first
\* whitespace-delimited token after the prefix; any other text leads to no
\* send call and no provider call.
C6_TrimmedCommand ==
  Dispatched =>
    LET text == request.update.text
    IN  /\ cmd = ClaimedCommand(text)
        /\ cmd = "price" => coin = ClaimedArgument(text)
        /\ ClaimedCommand(text) = "none" => sends = <<>> /\ upstream = <<>>

\* C6, amended: the command is matched on the lower-cased text as it is (no
\* trimming): text equal to /start, /help, /top10, /trending, /pulse or
\* /global selects that command; text beginning with "/price " selects
\* Price, whose argument is what stands between that first space and the
\* next space (possibly nothing), and it is what the search call is made
\* with; every other text, a command with surrounding whitespace included,
\* leads to no send call and no provider call.
C6_LowerCasedCommand ==
  Dispatched =>
    LET t == toLowerCase(request.update.text)
        command == IF ExactCommand(t) # "none" THEN ExactCommand(t)
                   ELSE IF BeginsWithPrice(t) THEN "price" ELSE "none"
    IN  /\ cmd = command
        /\ cmd = "price" =>
              /\ coin = prefixUntil(SubSeq(t, 8, Len(t)), {" "})
              /\ upstream[1].api = "search" /\ upstream[1].arg = coin
        /\ cmd = "none" => sends = <<>> /\ upstream = <<>> /\ pc = "done"

C6_Witness ==
  /\ Dispatched
  /\ request.update.text = <<"/", "p", "r", "i", "c", "e", " ", "b", "t", "c", " ", "e", "t", "h">>
  /\ cmd = "price"
  /\ coin = <<"b", "t", "c">>
  /\ pc = "awaitSearch"

\* C7: for /price, when the search call succeeds with zero hits, no detail
\* call is made, exactly one reply is sent, it is the not-found reply
\* carrying the queried term escaped once and no price field, and the "try
\* again later" apology is not sent.
C7_NotFoundSingleReply ==
  (cmd = "price" /\ upstream # <<>> /\ upstream[1].outcome = "zeroHits") =>
     /\ Len(upstream) = 1
     /\ Len(sends) = 1
     /\ sends[1].msg = Msg("priceNotFound", escapeMarkdown(coin))
     /\ \A i \in DOMAIN sends : sends[i].msg.kind # "priceApology"


\* the fetch of section s did not deliver a readable body: fetch threw, the
\* status was no success, or the body was no JSON
SectionFetchFailed(r) ==
  \/ r.answer \in {"transport", "nonOk"}
  \/ r.answer = "ok" /\ r.data.kind = "invalid"

\* the listing a JSON body normalises to, by its shape
ShapeListing(data) ==
  IF data.kind = "array" THEN data.items
  ELSE IF data.kind = "object" /\ data.data.t = "array" THEN data.data.items
  ELSE IF data.kind = "object" /\ data.tokens.t = "array" THEN data.tokens.items
  ELSE <<>>

\* C8, as stated: fetchAxiomPulseData never fails; on a success status it
\* returns the bare array, else the data array, else the tokens array, and
\* the empty sequence for any other shape; on transport failure, a
\* non-success status or a body that is no JSON it returns the fallback
\* fixture of the section.
C8_NormalisedOrFallback ==
  \A s \in Sections :
    sec[s].st = "settled" =>
      /\ sec[s].status = "fulfilled"
      /\ sec[s].value = IF SectionFetchFailed(sec[s])
                        THEN getMockPulseData(s)
                        ELSE ShapeListing(sec[s].data)

\* C8, amended: as stated, except that a body that is the JSON value null is
\* answered with the fallback fixture of the section, not with the empty
\* sequence.
C8_NormalisedOrFallbackNull ==
  \A s \in Sections :
    sec[s].st = "settled" =>
      /\ sec[s].status = "fulfilled"
      /\ sec[s].value = IF SectionFetchFailed(sec[s]) \/ sec[s].data.kind = "null"
                        THEN getMockPulseData(s)
                        ELSE ShapeListing(sec[s].data)

C8_Witness ==
  /\ sec["new-pairs"].st = "settled"
  /\ sec["new-pairs"].answer = "nonOk"
  /\ Len(sec["new-pairs"].value) = 2
  /\ sec["final-stretch"].st = "settled"
  /\ sec["final-stretch"].data.kind = "object"
  /\ sec["final-stretch"].data.data.t = "array"
  /\ sec["final-stretch"].data.tokens.t = "array"
  /\ sec["final-stretch"].value = sec["final-stretch"].data.data.items
  /\ sec["migrated"].st = "settled"
  /\ sec["migrated"].data.kind = "null"
  /\ Len(sec["migrated"].value) = 1

AllSectionsFailed ==
  \A s \in Sections : sec[s].st = "settled" /\ SectionFetchFailed(sec[s])

PulseReplies == {i \in DOMAIN sends : sends[i].msg.kind = "pulseReply"}

\* handlePulseCommand has gone past Promise.allSettled
PulseAggregated ==
  /\ cmd = "pulse"
  /\ \A s \in Sections : sec[s].st = "settled"
  /\ pc # "awaitPulse"

\* C9, as stated: when all three section fetches fail the reply holds five
\* rendered items for each section.
C9_FiveItemsPerSection ==
  \A i \in PulseReplies :
    AllSectionsFailed =>
      /\ Len(sends[i].msg.blocks) = 3
      /\ \A b \in 1..Len(sends[i].msg.blocks) : Len(sends[i].msg.blocks[b].items) = 5

ItemNames(block) == [k \in 1..Len(block.items) |-> block.items[k].name]

\* C9, amended: when all three section fetches fail the reply is still made
\* and holds, under the heading of each section, every item of the fallback
\* fixture of that section -- two for New Pairs, one for Final Stretch, one
\* for Migrated, not five -- and no notice; the "no new listings" notice is
\* in a reply only when the listings of all three sections are empty, which
\* no failed fetch produces.
C9_FallbackItemsRendered ==
  /\ (AllSectionsFailed /\ PulseAggregated) => PulseReplies # {}
  /\ \A i \in PulseReplies :
       LET m == sends[i].msg
       IN  /\ AllSectionsFailed =>
                /\ Len(m.blocks) = 3
                /\ m.blocks[1].heading = "New Pairs"
                /\ ItemNames(m.blocks[1]) = <<<<"P", "E", "P", "E", "2", "\\", ".", "0">>, <<"D", "o", "g", "e", "C", "o", "i", "n", " ", "C", "l", "a", "s", "s", "i", "c">>>>
                /\ m.blocks[2].heading = "Final Stretch"
                /\ ItemNames(m.blocks[2]) = <<<<"M", "o", "o", "n", "S", "h", "o", "t", " ", "T", "o", "k", "e", "n">>>>
                /\ m.blocks[3].heading = "Migrated to Raydium"
                /\ ItemNames(m.blocks[3]) = <<<<"S", "u", "c", "c", "e", "s", "s", "f", "u", "l", " ", "M", "e", "m", "e">>>>
                /\ m.notice = "none"
           /\ m.notice = "noNew" =>
                \A s \in Sections : sec[s].value = <<>> /\ ~SectionFetchFailed(sec[s])

C9_Witness ==
  /\ AllSectionsFailed
  /\ pc = "done"
  /\ AllSendsOk
  /\ PulseReplies = {2}
  /\ Len(sends[2].msg.blocks) = 3

SectionOfHeading(h) ==
  CASE h = "New Pairs" -> "new-pairs"
    [] h = "Final Stretch" -> "final-stretch"
    [] h = "Migrated to Raydium" -> "migrated"

SectionRank(s) ==
  CASE s = "new-pairs" -> 1 [] s = "final-stretch" -> 2 [] s = "migrated" -> 3

\* every listing rendered is a record
ListingsWellFormed ==
  \A s \in Sections : \A k \in 1..Len(sec[s].value) : k <= 5 => sec[s].value[k].isObject

ClaimedReserved ==
  {"_", "*", "[", "]", "(", ")", "~", Backtick, ">", "#", "+", "-", "=", "|", "{", "}", ".", "!"}

\* how many of the first i characters of s are reserved
ReservedUpTo(s, i) == Cardinality({j \in 1..i : s[j] \in ClaimedReserved})

\* C11: escapeMarkdown returns the text in which every occurrence of a
\* character of the reserved set is preceded by one backslash and every
\* other character stands unaltered and in place; a null or absent input
\* gives the empty string.
C11_EscapeMarkdown ==
  pc = "done" =>
    LET text == coin
        out == sends[1].msg.arg
    IN  IF text = undefined \/ text = null
        THEN out = <<>>
        ELSE /\ Len(out) = Len(text) + ReservedUpTo(text, Len(text))
             /\ \A i \in 1..Len(text) :
                   LET p == i + ReservedUpTo(text, i)
                   IN  /\ out[p] = text[i]
                       /\ text[i] \in ClaimedReserved => out[p - 1] = "\\"

C11_Witness ==
  /\ pc = "done"
  /\ coin = <<".", "!">>
  /\ sends[1].msg.arg = <<"\\", ".", "\\", "!">>


\* the record formatted and the block made of it
FormattedCoin == sec["new-pairs"].value[1]
FormattedLines == sends[1].msg.blocks[1].items[1].lines

LinesOf(label) == {k \in DOMAIN FormattedLines : FormattedLines[k].label = label}

NumberGiven(n) == n # <<>> /\ n[1].m # 0
TextPresent(t) == t # undefined /\ t # null

\* the lines of the optional number fields other than the 24h change
NumberLinesAsClaimed ==
  LET c == FormattedCoin
      ok(label, n) ==
        /\ (LinesOf(label) # {}) <=> NumberGiven(n)
        /\ \A k \in LinesOf(label) : FormattedLines[k].num = n
  IN  /\ ok("Price", c.price)
      /\ ok("Market Cap", c.marketCap)
      /\ ok("Volume", c.volume24h)
      /\ ok("Holders", c.holders)
      /\ ok("Progress", c.progress)

\* C12, as stated: formatCoinInfo renders the line of an optional field
\* (price, market cap, 24h volume, holders, age, 24h change, progress,
\* migration time) if and only if the field is present and, for a number,
\* not zero; no line is empty or zero-valued.
C12_OptionalLinesIffPresent ==
  pc = "done" =>
    LET c == FormattedCoin
    IN  /\ NumberLinesAsClaimed
        /\ (LinesOf("24h") # {}) <=> NumberGiven(c.change24h)
        /\ (LinesOf("Age") # {}) <=> TextPresent(c.age)
        /\ (LinesOf("Migrated") # {}) <=> TextPresent(c.migrationTime)

\* C12, amended: the lines of price, market cap, 24h volume, holders and
\* progress are rendered if and only if the field is present and not zero;
\* the lines of age and migration time if and only if the field is present
\* and not the empty string; the 24h change line is always rendered, once:
\* with the two-decimal value and the glyph of its sign when the field is
\* present and not zero, and as 0.00 with the positive glyph when it is
\* absent or zero.  No other line is rendered.
C12_OptionalLines ==
  pc = "done" =>
    LET c == FormattedCoin
        textOk(label, t) ==
          /\ (LinesOf(label) # {}) <=> (TextPresent(t) /\ t # <<>>)
          /\ \A k \in LinesOf(label) : FormattedLines[k].text = escapeMarkdown(t)
    IN  /\ NumberLinesAsClaimed
        /\ textOk("Age", c.age)
        /\ textOk("Migrated", c.migrationTime)
        /\ Cardinality(LinesOf("24h")) = 1
        /\ \A k \in LinesOf("24h") :
              IF NumberGiven(c.change24h)
              THEN /\ FormattedLines[k].fmt = "toFixed2"
                   /\ FormattedLines[k].num = c.change24h
                   /\ FormattedLines[k].icon = (IF c.change24h[1].m >= 0 THEN "green" ELSE "red")
              ELSE /\ FormattedLines[k].text = <<"0", "\\", ".", "0", "0">>
                   /\ FormattedLines[k].icon = "green"
        /\ \A label \in {"Price", "Market Cap", "Volume", "Holders", "Progress", "Age", "Migrated"} :
              Cardinality(LinesOf(label)) <= 1
        /\ \A k \in DOMAIN FormattedLines :
              FormattedLines[k].label \in
                {"Price", "24h", "Market Cap", "Volume", "Holders", "Age", "Progress", "Migrated"}

C12_Witness ==
  /\ pc = "done"
  /\ FormattedCoin.progress = Num(0, 0)
  /\ FormattedCoin.price = Num(5, 0)
  /\ FormattedCoin.change24h = NoNum
  /\ FormattedCoin.age = <<>>
  /\ LinesOf("Progress") = {}
  /\ LinesOf("Age") = {}
  /\ LinesOf("Price") = {1}
  /\ LinesOf("24h") = {2}

====
